---- MODULE Spec2Model ----
(***************************************************************************)
(* Model of the Telegram bot in src/main.py: the authorization gate, the   *)
(* command, text, image and callback handlers, the rename flow kept in     *)
(* context.user_data, and the upscale / thumbnail procedures.              *)
(*                                                                         *)
(* Updates are handled one at a time (Application.run_polling with the     *)
(* default sequential update processing), so every handler is one action.  *)
(* The calls a handler makes to the transport and to the remote services   *)
(* are recorded, in order and with their outcome, in last.log; a call that *)
(* raises is a call whose site is in the fault set F of the run.           *)
(*                                                                         *)
(* recent_image is a history variable: the file of the last image the      *)
(* allowed chat sent while no rename image was awaited (0: none). The      *)
(* handlers never read it.                                                 *)
(*                                                                         *)
(* SpecIntake refines the handlers that call a remote service: the run is  *)
(* split at requests.get / requests.post, and waiting holds the update     *)
(* whose handler is inside that call. The call is synchronous and made on  *)
(* the thread of the event loop, so no other step is taken until it        *)
(* returns.                                                                *)
(***************************************************************************)
EXTENDS Integers, Sequences, FiniteSets

VARIABLES user_data, last, recent_image, waiting

vars == <<user_data, last, recent_image, waiting>>

---------------------------------------------------------------------------
(* Bounds *)

NumFiles == 2

FileIds == 1..NumFiles

---------------------------------------------------------------------------
(* Configuration *)

ALLOWED_CHAT_ID == 12345678
OtherChat == ALLOWED_CHAT_ID + 1
Chats == {ALLOWED_CHAT_ID, OtherChat}

\* Mutant: the gate lets every chat in.
permit_every_chat(chat_id) == chat_id = chat_id

check_chat_permission(chat_id) == chat_id = ALLOWED_CHAT_ID

---------------------------------------------------------------------------
(* context.user_data: the dict of the user whose updates are modelled (the  *)
(* same user writes in the allowed chat and in another one), a function    *)
(* whose domain is the set of keys present.                                *)

EmptyDict == [k \in {} |-> TRUE]

Put(d, k, v) == [x \in (DOMAIN d) \cup {k} |-> IF x = k THEN v ELSE d[x]]

Has(d, k) == k \in DOMAIN d

FlagKeys == {"waiting_for_rename_image", "waiting_for_rename_filename"}

\* d.get(k) used as a condition: None (absent) and False are both falsy;
\* file ids are non-empty strings, hence truthy whenever present.
Truthy(d, k) == Has(d, k) /\ (IF k \in FlagKeys THEN d[k] ELSE TRUE)

---------------------------------------------------------------------------
(* Calls recorded in the log of a handler run *)

NoName == <<>>

Call(op, text, file, name, ok) ==
    [op |-> op, text |-> text, file |-> file, name |-> name, ok |-> ok]

ReplyText(text, ok) == Call("reply_text", text, 0, NoName, ok)
EditText(text, ok) == Call("edit_message_text", text, 0, NoName, ok)

\* a reply or an edit with reply_markup: the callback_data of the buttons of
\* the inline keyboard, row after row
ReplyMenu(text, keyboard, ok) == Call("reply_text", text, 0, keyboard, ok)
EditMenu(text, keyboard, ok) == Call("edit_message_text", text, 0, keyboard, ok)
Invoke(proc, name) == Call(proc, "invoke", 0, name, TRUE)

Run(ud, log, esc) == [ud |-> ud, log |-> log, esc |-> esc]

\* reply_text as the last statement of a handler, outside any try block:
\* the exception of a failed call leaves the handler.
ReplyAndReturn(ud, text, ok) == Run(ud, <<ReplyText(text, ok)>>, ~ok)

---------------------------------------------------------------------------
(* Command handlers *)

start(ud, chat, F) ==
    IF ~check_chat_permission(chat)
    THEN ReplyAndReturn(ud, "not_authorized", "reply" \notin F)
    ELSE ReplyAndReturn(ud, "welcome", "reply" \notin F)

share(ud, chat, F) ==
    IF ~check_chat_permission(chat)
    THEN ReplyAndReturn(ud, "not_authorized", "reply" \notin F)
    ELSE ReplyAndReturn(ud, "share_link", "reply" \notin F)

\* Mutant: /rename sets the flag of the second step of the flow.
rename_sets_filename_flag(ud, chat, F) ==
    IF ~check_chat_permission(chat)
    THEN ReplyAndReturn(ud, "not_authorized", "reply" \notin F)
    ELSE IF "reply" \in F
         THEN ReplyAndReturn(ud, "rename_prompt", FALSE)
         ELSE Run(Put(ud, "waiting_for_rename_filename", TRUE),
                  <<ReplyText("rename_prompt", TRUE)>>, FALSE)

\* Mutant: /rename starts the flow without asking the gate.
rename_unchecked(ud, chat, F) ==
    IF "reply" \in F
    THEN ReplyAndReturn(ud, "rename_prompt", FALSE)
    ELSE Run(Put(ud, "waiting_for_rename_image", TRUE),
             <<ReplyText("rename_prompt", TRUE)>>, FALSE)

rename(ud, chat, F) ==
    IF ~check_chat_permission(chat)
    THEN ReplyAndReturn(ud, "not_authorized", "reply" \notin F)
    ELSE IF "reply" \in F
         THEN ReplyAndReturn(ud, "rename_prompt", FALSE)
         ELSE Run(Put(ud, "waiting_for_rename_image", TRUE),
                  <<ReplyText("rename_prompt", TRUE)>>, FALSE)

---------------------------------------------------------------------------
(* Text of a message: a sequence of characters *)

Letters == {"a"}
Digits == {"1"}
Whitespace == {" ", "\t", "\n"}
Punctuation == {"!"}
Chars == Letters \cup Digits \cup Whitespace \cup Punctuation \cup {"-", "_"}

RECURSIVE lstrip(_)
lstrip(s) ==
    IF s # <<>> /\ Head(s) \in Whitespace THEN lstrip(Tail(s)) ELSE s

RECURSIVE rstrip(_)
rstrip(s) ==
    IF s # <<>> /\ s[Len(s)] \in Whitespace
    THEN rstrip(SubSeq(s, 1, Len(s) - 1))
    ELSE s

\* str.strip()
strip(s) == rstrip(lstrip(s))

\* the character class [^\w\s\-_] of the pattern: what re.sub removes
Removed(c) == ~(c \in Letters \cup Digits \cup {"_"} \/ c \in Whitespace \/ c \in {"-", "_"})

KeepChar(c) == ~Removed(c)

\* re.sub(r'[^\w\s\-_]', '', s)
re_sub(s) == SelectSeq(s, KeepChar)

\* str.replace(' ', '_')
replace_space(s) == [i \in 1..Len(s) |-> IF s[i] = " " THEN "_" ELSE s[i]]

clean_filename(filename) == replace_space(re_sub(strip(filename)))

PngExt == <<".png">>

new_filename(filename) == clean_filename(filename) \o PngExt

---------------------------------------------------------------------------
(* Rename finalization *)

\* the except clause of process_rename_with_filename: the error reply, then
\* user_data.clear(); a failing reply leaves the handler before the clear.
rename_except(ud, log, F) ==
    IF "report" \in F
    THEN Run(ud, Append(log, ReplyText("rename_error", FALSE)), TRUE)
    ELSE Run(EmptyDict, Append(log, ReplyText("rename_error", TRUE)), FALSE)

\* `if not file_id`: the instructive error, then user_data.clear()
rename_no_image(ud, log, F) ==
    IF "reply" \in F
    THEN rename_except(ud, Append(log, ReplyText("rename_no_image", FALSE)), F)
    ELSE Run(EmptyDict, Append(log, ReplyText("rename_no_image", TRUE)), FALSE)

\* Mutant: the rejection of the filename ends the flow.
rename_reject_clears(ud, log, F) ==
    IF "reply" \in F
    THEN rename_except(ud, Append(log, ReplyText("rename_invalid_name", FALSE)), F)
    ELSE Run(EmptyDict, Append(log, ReplyText("rename_invalid_name", TRUE)), FALSE)

\* `if not clean_filename`: the rejection, and return with user_data as it is
rename_reject(ud, log, F) ==
    IF "reply" \in F
    THEN rename_except(ud, Append(log, ReplyText("rename_invalid_name", FALSE)), F)
    ELSE Run(ud, Append(log, ReplyText("rename_invalid_name", TRUE)), FALSE)

process_rename_with_filename(ud, filename, F) ==
    LET enter == <<Invoke("process_rename_with_filename", filename)>>
    IN
    IF ~Truthy(ud, "rename_file_id") THEN rename_no_image(ud, enter, F)
    ELSE IF clean_filename(filename) = <<>> THEN rename_reject(ud, enter, F)
    ELSE
    LET file_id == ud["rename_file_id"]
        name == new_filename(filename)
        c1 == ReplyText("rename_processing", "reply" \notin F)
        c2 == Call("get_file", "download", file_id, NoName, "get_file" \notin F)
        c3 == Call("send_document", "renamed", file_id, name, "send_document" \notin F)
        c4 == Call("delete_message", "rename_processing", 0, NoName, "delete" \notin F)
    IN
    IF ~c1.ok THEN rename_except(ud, enter \o <<c1>>, F)
    ELSE IF ~c2.ok THEN rename_except(ud, enter \o <<c1, c2>>, F)
    ELSE IF ~c3.ok THEN rename_except(ud, enter \o <<c1, c2, c3>>, F)
    ELSE IF ~c4.ok THEN rename_except(ud, enter \o <<c1, c2, c3, c4>>, F)
    ELSE Run(EmptyDict, enter \o <<c1, c2, c3, c4>>, FALSE)

---------------------------------------------------------------------------
(* Text handler *)

\* Outcomes of a request to a remote service.
\*   ok          a JSON object carrying the result field
\*   no_field    a JSON object without the result field
\*   timeout     requests.exceptions.Timeout / ConnectionError
\*   http_error  raise_for_status() raises HTTPError
\*   bad_json    response.json() raises: a RequestException subclass in
\*               requests >= 2.27, a plain ValueError before
\*   bad_base64  the result field does not decode (upscale, thumbnail)
RequestFailures == {"timeout", "http_error"}
CaptionOutcomes == {"ok", "no_field", "bad_json"} \cup RequestFailures

\* whether the exception of the outcome is caught by
\* `except requests.exceptions.RequestException`; for bad_json it depends on
\* the installed requests version (jsonIsReqExc).
IsRequestException(outcome, jsonIsReqExc) ==
    outcome \in RequestFailures \/ (outcome = "bad_json" /\ jsonIsReqExc)

HttpCall(service, file, arg, outcome) ==
    Call("http", service, file, arg, outcome \in {"ok", "no_field", "bad_base64"})

\* Mutant: no return after rename finalization, the text goes on to the
\* caption service.
handle_text_falls_through(ud, chat, text, F, outcome, jsonIsReqExc) ==
    IF ~check_chat_permission(chat) THEN Run(ud, <<>>, FALSE)
    ELSE LET r == process_rename_with_filename(ud, text, F)
             c1 == HttpCall("caption", 0, text, outcome)
         IN IF Truthy(ud, "waiting_for_rename_filename")
            THEN Run(r.ud, r.log \o <<c1>>, r.esc)
            ELSE Run(ud, <<c1, ReplyText("caption_result", TRUE)>>, FALSE)

handle_text(ud, chat, text, F, outcome, jsonIsReqExc) ==
    IF ~check_chat_permission(chat) THEN Run(ud, <<>>, FALSE)
    ELSE IF Truthy(ud, "waiting_for_rename_filename")
    THEN process_rename_with_filename(ud, text, F)
    ELSE
    LET c0 == Call("send_chat_action", "typing", 0, NoName, "chat_action" \notin F)
        c1 == HttpCall("caption", 0, text, outcome)
        unexpected(log) ==
            Run(ud, Append(log, ReplyText("unexpected_error", "report" \notin F)),
                "report" \in F)
    IN
    IF ~c0.ok THEN Run(ud, <<c0>>, TRUE)
    ELSE IF outcome = "ok"
    THEN IF "reply" \in F
         THEN unexpected(<<c0, c1, ReplyText("caption_result", FALSE)>>)
         ELSE Run(ud, <<c0, c1, ReplyText("caption_result", TRUE)>>, FALSE)
    ELSE IF outcome = "no_field"
    THEN IF "reply" \in F
         THEN unexpected(<<c0, c1, ReplyText("caption_no_result", FALSE)>>)
         ELSE Run(ud, <<c0, c1, ReplyText("caption_no_result", TRUE)>>, FALSE)
    ELSE IF IsRequestException(outcome, jsonIsReqExc)
    THEN Run(ud, <<c0, c1, ReplyText("caption_error", "report" \notin F)>>,
             "report" \in F)
    ELSE unexpected(<<c0, c1>>)

---------------------------------------------------------------------------
(* Image messages *)

\* A message: its photo sizes (file ids, smallest first; empty when the
\* message is no photo) and its document (has_document, file_id, mime_type
\* as <<type, subtype>>).
PhotoMsg(f) == [photo |-> <<f>>, has_document |-> FALSE, file_id |-> 0,
                mime_type |-> <<"none", "none">>]
DocumentMsg(f, mime) == [photo |-> <<>>, has_document |-> TRUE, file_id |-> f,
                         mime_type |-> mime]
NoMsg == [photo |-> <<>>, has_document |-> FALSE, file_id |-> 0,
          mime_type |-> <<"none", "none">>]

ImageMime == <<"image", "png">>
PdfMime == <<"application", "pdf">>

\* mime_type.startswith('image/')
is_image_mime(mime) == mime[1] = "image"

\* update.message.photo[-1]
largest(photo) == photo[Len(photo)]

process_rename_image(ud, msg, F) ==
    IF msg.photo # <<>> \/ (msg.has_document /\ is_image_mime(msg.mime_type))
    THEN LET fid == IF msg.photo # <<>> THEN largest(msg.photo) ELSE msg.file_id
             kind == IF msg.photo # <<>> THEN "photo" ELSE "document"
             ud1 == Put(Put(ud, "rename_file_id", fid), "rename_file_type", kind)
             ud2 == Put(Put(ud1, "waiting_for_rename_image", FALSE),
                        "waiting_for_rename_filename", TRUE)
         IN ReplyAndReturn(ud2, "rename_image_received", "reply" \notin F)
    ELSE ReplyAndReturn(ud, "rename_invalid_image", "reply" \notin F)

\* the keyboard of the reply to an image: Upscale, Thumbnail
image_keyboard == <<"upscale_menu", "thumbnail">>

\* the reply with the keyboard, last statement of handle_image
menu_reply(ud, F) ==
    Run(ud, <<ReplyMenu("main_menu", image_keyboard, "reply" \notin F)>>, "reply" \in F)

\* Mutant: an image does not replace a reference that is already stored.
handle_image_keeps_first(ud, chat, msg, F) ==
    IF ~check_chat_permission(chat) THEN Run(ud, <<>>, FALSE)
    ELSE IF Truthy(ud, "waiting_for_rename_image")
    THEN LET r == process_rename_image(ud, msg, F)
         IN Run(r.ud, <<Invoke("process_rename_image", NoName)>> \o r.log, r.esc)
    ELSE IF Has(ud, "photo_file_id") THEN menu_reply(ud, F)
    ELSE IF msg.photo # <<>>
    THEN menu_reply(Put(ud, "photo_file_id", largest(msg.photo)), F)
    ELSE menu_reply(Put(ud, "photo_file_id", msg.file_id), F)

handle_image(ud, chat, msg, F) ==
    IF ~check_chat_permission(chat) THEN Run(ud, <<>>, FALSE)
    ELSE IF Truthy(ud, "waiting_for_rename_image")
    THEN LET r == process_rename_image(ud, msg, F)
         IN Run(r.ud, <<Invoke("process_rename_image", NoName)>> \o r.log, r.esc)
    ELSE IF msg.photo # <<>>
    THEN menu_reply(Put(ud, "photo_file_id", largest(msg.photo)), F)
    ELSE IF msg.has_document /\ is_image_mime(msg.mime_type)
    THEN menu_reply(Put(ud, "photo_file_id", msg.file_id), F)
    ELSE Run(ud, <<>>, FALSE)

---------------------------------------------------------------------------
(* Upscale and thumbnail procedures *)

ImageOutcomes == {"ok", "no_field", "bad_json", "bad_base64"} \cup RequestFailures

UpscaleTexts ==
    [service |-> "upscale",
     processing |-> "upscale_processing",
     not_found |-> "image_not_found",
     invalid |-> "upscale_invalid_response",
     request_error |-> "upscale_request_error",
     unexpected |-> "upscale_unexpected_error"]

ThumbnailTexts ==
    [service |-> "thumbnail",
     processing |-> "thumbnail_processing",
     not_found |-> "image_not_found",
     invalid |-> "thumbnail_invalid_response",
     request_error |-> "thumbnail_request_error",
     unexpected |-> "thumbnail_unexpected_error"]

\* Mutant: the request error is logged and not shown.
job_request_except_silent(ud, t, log, F) == Run(ud, log, FALSE)

\* `except requests.exceptions.RequestException`
job_request_except(ud, t, log, F) ==
    Run(ud, Append(log, EditText(t.request_error, "report" \notin F)), "report" \in F)

\* Mutant: an unexpected error ends the session like a failed rename does.
job_except_clears(ud, t, log, F) ==
    Run(EmptyDict, Append(log, EditText(t.unexpected, "report" \notin F)), "report" \in F)

\* `except Exception`
job_except(ud, t, log, F) ==
    Run(ud, Append(log, EditText(t.unexpected, "report" \notin F)), "report" \in F)

\* Mutant: the missing image is reported with the text of an invalid response.
job_not_found_wrong_text(ud, t, log, F) ==
    IF "edit_result" \in F
    THEN job_except(ud, t, Append(log, EditText(t.invalid, FALSE)), F)
    ELSE Run(ud, Append(log, EditText(t.invalid, TRUE)), FALSE)

\* `if not photo_file_id`: the 'not found' edit, and return
job_not_found(ud, t, log, F) ==
    IF "edit_result" \in F
    THEN job_except(ud, t, Append(log, EditText(t.not_found, FALSE)), F)
    ELSE Run(ud, Append(log, EditText(t.not_found, TRUE)), FALSE)

\* The common shape of process_upscale and process_thumbnail: t holds the
\* service and the texts of the procedure, arg is the request's size, doc
\* the name of the delivered document.
image_job(ud, t, arg, doc, F, outcome, jsonIsReqExc) ==
    LET e0 == EditText(t.processing, "edit" \notin F)
        unexpected(log) == job_except(ud, t, log, F)
    IN
    IF ~e0.ok THEN Run(ud, <<e0>>, TRUE)
    ELSE IF ~Truthy(ud, "photo_file_id") THEN job_not_found(ud, t, <<e0>>, F)
    ELSE
    LET fid == ud["photo_file_id"]
        g == Call("get_file", "download", fid, NoName, "get_file" \notin F)
        h == HttpCall(t.service, fid, arg, outcome)
        d == Call("send_document", t.service, fid, doc, "send_document" \notin F)
        x == Call("delete_message", t.processing, 0, NoName, "delete" \notin F)
    IN
    IF ~g.ok THEN unexpected(<<e0, g>>)
    ELSE IF IsRequestException(outcome, jsonIsReqExc)
    THEN job_request_except(ud, t, <<e0, g, h>>, F)
    ELSE IF outcome \in {"bad_json", "bad_base64"} THEN unexpected(<<e0, g, h>>)
    ELSE IF outcome = "no_field"
    THEN IF "edit_result" \in F
         THEN unexpected(<<e0, g, h, EditText(t.invalid, FALSE)>>)
         ELSE Run(ud, <<e0, g, h, EditText(t.invalid, TRUE)>>, FALSE)
    ELSE IF ~d.ok THEN unexpected(<<e0, g, h, d>>)
    ELSE IF ~x.ok THEN unexpected(<<e0, g, h, d, x>>)
    ELSE Run(ud, <<e0, g, h, d, x>>, FALSE)

process_upscale(ud, scale_factor, F, outcome, jsonIsReqExc) ==
    image_job(ud, UpscaleTexts, <<scale_factor>>, <<"upscaled_", scale_factor, ".png">>,
              F, outcome, jsonIsReqExc)

process_thumbnail(ud, F, outcome, jsonIsReqExc) ==
    image_job(ud, ThumbnailTexts, NoName, <<"thumbnail.png">>, F, outcome, jsonIsReqExc)

---------------------------------------------------------------------------
(* Callback handler *)

\* query.data, split at its underscores
UpscaleMenu == <<"upscale", "menu">>
BackToMain == <<"back", "to", "main">>
Thumbnail == <<"thumbnail">>
CallbackData == {UpscaleMenu, BackToMain, Thumbnail,
                 <<"upscale", "2x">>, <<"upscale", "4x">>, <<"upscale", "8x">>}

\* query.data.startswith("upscale_")
starts_with_upscale(data) == Len(data) >= 2 /\ data[1] = "upscale"

\* the keyboard of the upscale menu: 2x, 4x (Default), 8x; Back
upscale_keyboard == <<"upscale_2x", "upscale_4x", "upscale_8x", "back_to_main">>

\* Mutant: Back redraws the menu it came from.
back_keyboard_stays == upscale_keyboard

\* the keyboard drawn by back_to_main: Upscale, Thumbnail
back_keyboard == <<"upscale_menu", "thumbnail">>

\* Mutant: the permission check comes first, the callback of another chat
\* is not acknowledged.
handle_callback_checks_first(ud, chat, data, F, outcome, jsonIsReqExc) ==
    LET a == Call("answer", "callback", 0, NoName, "answer" \notin F)
        sub(r) == Run(r.ud, <<a>> \o r.log, r.esc)
    IN
    IF ~check_chat_permission(chat) THEN Run(ud, <<>>, FALSE)
    ELSE IF ~a.ok THEN Run(ud, <<a>>, TRUE)
    ELSE IF data = UpscaleMenu
    THEN Run(ud, <<a, EditMenu("upscale_menu", upscale_keyboard, "edit" \notin F)>>,
             "edit" \in F)
    ELSE IF data = BackToMain
    THEN Run(ud, <<a, EditMenu("main_menu", back_keyboard, "edit" \notin F)>>,
             "edit" \in F)
    ELSE IF starts_with_upscale(data)
    THEN sub(process_upscale(ud, data[2], F, outcome, jsonIsReqExc))
    ELSE IF data = Thumbnail
    THEN sub(process_thumbnail(ud, F, outcome, jsonIsReqExc))
    ELSE Run(ud, <<a>>, FALSE)

handle_callback(ud, chat, data, F, outcome, jsonIsReqExc) ==
    LET a == Call("answer", "callback", 0, NoName, "answer" \notin F)
        sub(r) == Run(r.ud, <<a>> \o r.log, r.esc)
    IN
    IF ~a.ok THEN Run(ud, <<a>>, TRUE)
    ELSE IF ~check_chat_permission(chat) THEN Run(ud, <<a>>, FALSE)
    ELSE IF data = UpscaleMenu
    THEN Run(ud, <<a, EditMenu("upscale_menu", upscale_keyboard, "edit" \notin F)>>,
             "edit" \in F)
    ELSE IF data = BackToMain
    THEN Run(ud, <<a, EditMenu("main_menu", back_keyboard, "edit" \notin F)>>,
             "edit" \in F)
    ELSE IF starts_with_upscale(data)
    THEN sub(process_upscale(ud, data[2], F, outcome, jsonIsReqExc))
    ELSE IF data = Thumbnail
    THEN sub(process_thumbnail(ud, F, outcome, jsonIsReqExc))
    ELSE Run(ud, <<a>>, FALSE)

---------------------------------------------------------------------------
(* The updates and their dispatch (main) *)

Sites == {"answer", "chat_action", "reply", "edit", "edit_result",
          "get_file", "send_document", "delete", "report"}

\* The fault sets of a run over the call sites S. A call that raises ends the
\* try block (or the handler), so of the sites of the body only the first
\* failing one is reached; the report of the except clause is the one call
\* made after it. Every other subset of S gives the run of one of these.
FaultSets(S) == {X \in SUBSET S : Cardinality(X \ {"report"}) <= 1}

\* Texts of the text messages of the main specification
Texts == {<<"a">>, <<"!">>, <<" ">>, <<"a", " ", "1">>, <<"a", "\n", "1">>,
          <<"-", "!", "_">>}

NoData == <<>>

\* The file an image message carries
ImageOf(msg) == IF msg.photo # <<>> THEN largest(msg.photo) ELSE msg.file_id

\* menu: the image whose menu message carries the pressed button (0: no
\* callback, or a message of no image of FileIds)
Record(handler, chat, text, data, msg, menu, r) ==
    [handler |-> handler, chat |-> chat, pre |-> user_data,
     text |-> text, data |-> data, msg |-> msg, menu |-> menu,
     log |-> r.log, esc |-> r.esc]

SentOutsideRename(handler, chat) ==
    /\ handler = "handle_image"
    /\ chat = ALLOWED_CHAT_ID
    /\ ~Truthy(user_data, "waiting_for_rename_image")

\* No handler is inside a request
NoRequest ==
    [handler |-> "none", chat |-> ALLOWED_CHAT_ID, text |-> <<>>,
     data |-> NoData, menu |-> 0]

Idle == waiting = NoRequest

FinishPress(handler, chat, text, data, msg, menu, r) ==
    /\ waiting' = NoRequest
    /\ user_data' = r.ud
    /\ last' = Record(handler, chat, text, data, msg, menu, r)
    /\ recent_image' = IF SentOutsideRename(handler, chat)
                       THEN ImageOf(msg) ELSE recent_image

Finish(handler, chat, text, data, msg, r) ==
    FinishPress(handler, chat, text, data, msg, 0, r)

Init ==
    /\ user_data = EmptyDict
    /\ last = [handler |-> "none", chat |-> ALLOWED_CHAT_ID,
               pre |-> EmptyDict, text |-> <<>>, data |-> NoData, msg |-> NoMsg,
               menu |-> 0, log |-> <<>>, esc |-> FALSE]
    /\ recent_image = 0
    /\ waiting = NoRequest

\* CommandHandler("start", start)
Start ==
    \E chat \in Chats :
    \E F \in FaultSets({"reply"}) :
        Finish("start", chat, <<>>, NoData, NoMsg,
               start(user_data, chat, F))

\* CommandHandler("share", share)
Share ==
    \E chat \in Chats :
    \E F \in FaultSets({"reply"}) :
        Finish("share", chat, <<>>, NoData, NoMsg,
               share(user_data, chat, F))

\* CommandHandler("rename", rename)
Rename ==
    \E chat \in Chats :
    \E F \in FaultSets({"reply"}) :
        Finish("rename", chat, <<>>, NoData, NoMsg,
               rename(user_data, chat, F))

\* The fault sets of a try block whose calls are at the sites S: no call
\* raises, or one does and the report of the except clause may raise too.
Raising(S) == {{}} \cup {{s} : s \in S} \cup {{s, "report"} : s \in S}

\* The calls a run can reach, and so the outcomes and faults that matter to
\* it: of the inputs that give the same run one is taken.
CaptionOutcomesFor(ud, chat) ==
    IF check_chat_permission(chat) /\ ~Truthy(ud, "waiting_for_rename_filename")
    THEN CaptionOutcomes
    ELSE {"ok"}

TextFaultsFor(ud, chat, outcome) ==
    IF ~check_chat_permission(chat) THEN {{}}
    ELSE IF Truthy(ud, "waiting_for_rename_filename")
    THEN FaultSets({"reply", "get_file", "send_document", "delete", "report"})
    ELSE IF outcome = "ok" THEN {{"chat_action"}} \cup Raising({"reply"})
    ELSE IF outcome = "no_field" THEN Raising({"reply"})
    ELSE {{}, {"report"}}

\* The class of the exception response.json() raises is fixed by the
\* installed requests version; both are possible builds.
JsonClasses(outcome) == IF outcome = "bad_json" THEN BOOLEAN ELSE {TRUE}

\* MessageHandler(filters.TEXT & ~filters.COMMAND, handle_text)
HandleText ==
    \E chat \in Chats, text \in Texts :
    \E outcome \in CaptionOutcomesFor(user_data, chat) :
    \E jsonIsReqExc \in JsonClasses(outcome) :
    \E F \in TextFaultsFor(user_data, chat, outcome) :
        Finish("handle_text", chat, text, NoData, NoMsg,
               handle_text(user_data, chat, text, F, outcome, jsonIsReqExc))

\* MessageHandler(filters.PHOTO, handle_image) and
\* MessageHandler(filters.Document.IMAGE, handle_image)
ImageMsgs == {PhotoMsg(f) : f \in FileIds} \cup {DocumentMsg(f, ImageMime) : f \in FileIds}

HandleImage ==
    \E chat \in Chats, msg \in ImageMsgs :
    \E F \in FaultSets({"reply"}) :
        Finish("handle_image", chat, <<>>, NoData, msg,
               handle_image(user_data, chat, msg, F))

\* A document whose mime type is no image matches none of the registered
\* filters: the update is dropped, no handler runs.
OtherDocMsgs == {DocumentMsg(f, PdfMime) : f \in FileIds}

Unhandled ==
    \E chat \in Chats :
    \E msg \in OtherDocMsgs :
        Finish("none", chat, <<>>, NoData, msg, Run(user_data, <<>>, FALSE))

IsJob(data) == data # UpscaleMenu /\ data # BackToMain

ImageOutcomesFor(ud, chat, data) ==
    IF check_chat_permission(chat) /\ IsJob(data) /\ Truthy(ud, "photo_file_id")
    THEN ImageOutcomes
    ELSE {"ok"}

CallbackFaultsFor(ud, chat, data, outcome) ==
    IF ~check_chat_permission(chat) THEN {{}, {"answer"}}
    ELSE IF ~IsJob(data) THEN {{}, {"answer"}, {"edit"}}
    ELSE IF ~Truthy(ud, "photo_file_id")
    THEN {{"answer"}, {"edit"}} \cup Raising({"edit_result"})
    ELSE IF outcome = "ok"
    THEN {{"answer"}, {"edit"}} \cup Raising({"get_file", "send_document", "delete"})
    ELSE IF outcome = "no_field" THEN Raising({"edit_result"})
    ELSE {{}, {"report"}}

\* CallbackQueryHandler(handle_callback)
\* The pressed button is on any menu message the chat holds, of whichever
\* image; the messages outlive user_data, which is kept in memory only.
HandleCallback ==
    \E chat \in Chats, data \in CallbackData :
    \E menu \in FileIds \cup {0} :
    \E outcome \in ImageOutcomesFor(user_data, chat, data) :
    \E jsonIsReqExc \in JsonClasses(outcome) :
    \E F \in CallbackFaultsFor(user_data, chat, data, outcome) :
        FinishPress("handle_callback", chat, <<>>, data, NoMsg, menu,
                    handle_callback(user_data, chat, data, F, outcome, jsonIsReqExc))

Next ==
    \/ Start
    \/ Share
    \/ Rename
    \/ HandleText
    \/ HandleImage
    \/ Unhandled
    \/ HandleCallback

Spec == Init /\ [][Next]_vars

---------------------------------------------------------------------------
(* The handlers with the remote request as a step of its own *)

\* The faults of the calls made before the request
BeforeRequest == {"answer", "chat_action", "edit", "get_file"}

\* The event loop takes the next update and runs its handler: it does so
\* only when it is not inside a handler, and a handler inside requests.get
\* or requests.post has not given the loop back.
HandleUpdate == Idle /\ Next

\* handle_text up to requests.get: the typing action was sent
BeginCaption ==
    /\ Idle
    /\ ~Truthy(user_data, "waiting_for_rename_filename")
    /\ \E text \in Texts :
          waiting' = [handler |-> "handle_text", chat |-> ALLOWED_CHAT_ID,
                      text |-> text, data |-> NoData, menu |-> 0]
    /\ UNCHANGED <<user_data, last, recent_image>>

\* process_upscale / process_thumbnail up to requests.post: the press was
\* acknowledged, the status edited and the stored image fetched
BeginJob ==
    /\ Idle
    /\ Truthy(user_data, "photo_file_id")
    /\ \E data \in {d \in CallbackData : IsJob(d)} :
       \E menu \in FileIds \cup {0} :
          waiting' = [handler |-> "handle_callback", chat |-> ALLOWED_CHAT_ID,
                      text |-> <<>>, data |-> data, menu |-> menu]
    /\ UNCHANGED <<user_data, last, recent_image>>

\* The request returns or times out and the handler runs to its end
CompleteCaption ==
    /\ waiting.handler = "handle_text"
    /\ \E outcome \in CaptionOutcomes :
       \E jsonIsReqExc \in JsonClasses(outcome) :
       \E F \in {X \in TextFaultsFor(user_data, waiting.chat, outcome) :
                    X \cap BeforeRequest = {}} :
          Finish("handle_text", waiting.chat, waiting.text, NoData, NoMsg,
                 handle_text(user_data, waiting.chat, waiting.text, F,
                             outcome, jsonIsReqExc))

CompleteJob ==
    /\ waiting.handler = "handle_callback"
    /\ \E outcome \in ImageOutcomes :
       \E jsonIsReqExc \in JsonClasses(outcome) :
       \E F \in {X \in CallbackFaultsFor(user_data, waiting.chat, waiting.data, outcome) :
                    X \cap BeforeRequest = {}} :
          FinishPress("handle_callback", waiting.chat, <<>>, waiting.data, NoMsg,
                      waiting.menu,
                      handle_callback(user_data, waiting.chat, waiting.data, F,
                                      outcome, jsonIsReqExc))

NextIntake ==
    \/ HandleUpdate
    \/ BeginCaption
    \/ BeginJob
    \/ CompleteCaption
    \/ CompleteJob

SpecIntake == Init /\ [][NextIntake]_vars

---------------------------------------------------------------------------
(* What the properties read: the run recorded in last led from last.pre to *)
(* user_data.                                                              *)

\* the update of the run came from the configured chat
Authorized == last.chat = ALLOWED_CHAT_ID

Commands == {"start", "share", "rename"}

AwaitingImage(ud) == Truthy(ud, "waiting_for_rename_image")
AwaitingFilename(ud) == Truthy(ud, "waiting_for_rename_filename")

LogIdx == 1..Len(last.log)

Issued(op) == \E i \in LogIdx : last.log[i].op = op

IssuedText(op, text) == \E i \in LogIdx : last.log[i].op = op /\ last.log[i].text = text

RenameStateCleared(ud) ==
    /\ ~AwaitingImage(ud)
    /\ ~AwaitingFilename(ud)
    /\ ~Has(ud, "rename_file_id")
    /\ ~Has(ud, "rename_file_type")

IsValidImage(msg) ==
    msg.photo # <<>> \/ (msg.has_document /\ is_image_mime(msg.mime_type))

---------------------------------------------------------------------------
(* C1: in every reachable session state at most one of the flags           *)
(* waiting_for_rename_image and waiting_for_rename_filename is true.       *)
(* The code refutes it: /rename sets the first flag and leaves the second. *)
C1_AtMostOneAwaitingFlag ==
    ~(AwaitingImage(user_data) /\ AwaitingFilename(user_data))

(* C2: every run of rename finalization that is a terminal step (the       *)
(* document was uploaded, the fetch or the upload failed, or the captured  *)
(* file reference was missing) ends with both flags false and no rename    *)
(* file reference or kind stored. The code refutes it: the clear follows   *)
(* the error reply, and a failing error reply leaves before it.            *)
C2_RenameTerminal ==
    /\ Issued("process_rename_with_filename")
    /\ \/ \E i \in LogIdx : last.log[i].op = "send_document"
       \/ \E i \in LogIdx : last.log[i].op = "get_file" /\ ~last.log[i].ok
       \/ IssuedText("reply_text", "rename_no_image")

C2_TerminalStepClearsRenameState ==
    C2_RenameTerminal => RenameStateCleared(user_data)

(* C3: whenever waiting_for_rename_filename is true, a rename file         *)
(* reference and kind captured from a photo or an image document are       *)
(* stored; the flag becomes true only by a valid image handled while       *)
(* waiting_for_rename_image is true; and rename finalization never takes   *)
(* its 'no image found' branch.                                            *)
C3_FilenameFlagHasCapturedImage ==
    /\ AwaitingFilename(user_data) =>
          /\ Has(user_data, "rename_file_id")
          /\ Has(user_data, "rename_file_type")
          /\ user_data["rename_file_id"] \in FileIds
          /\ user_data["rename_file_type"] \in {"photo", "document"}
    /\ (~AwaitingFilename(last.pre) /\ AwaitingFilename(user_data)) =>
          /\ last.handler = "handle_image"
          /\ Authorized
          /\ AwaitingImage(last.pre)
          /\ IsValidImage(last.msg)
          /\ user_data["rename_file_id"] =
                (IF last.msg.photo # <<>> THEN largest(last.msg.photo)
                 ELSE last.msg.file_id)
          /\ user_data["rename_file_type"] =
                (IF last.msg.photo # <<>> THEN "photo" ELSE "document")
    /\ ~IssuedText("reply_text", "rename_no_image")

C3_Witness ==
    /\ last.handler = "handle_image"
    /\ ~AwaitingFilename(last.pre)
    /\ AwaitingFilename(user_data)
    /\ last.msg.has_document

(* C4: for an update of a chat other than the allowed one, a command       *)
(* (/start, /share, /rename) makes exactly one call, the reply with the    *)
(* fixed rejection, and a text message, an image message and a callback    *)
(* press make no reply, no message edit and send no document.              *)
C4_UnauthorizedOutputs ==
    (~Authorized) =>
        IF last.handler \in Commands
        THEN /\ Len(last.log) = 1
             /\ last.log[1].op = "reply_text"
             /\ last.log[1].text = "not_authorized"
        ELSE \A i \in LogIdx :
                last.log[i].op \notin {"reply_text", "edit_message_text", "send_document"}

C4_Witness ==
    /\ ~Authorized
    /\ last.handler = "rename"
    /\ last.log[1].ok

(* C5: no exception escapes a top-level handler, whichever call made       *)
(* while handling the update fails. The code refutes it: the replies of    *)
(* the commands, send_chat_action, query.answer, the first edit of a job   *)
(* and the calls of the except clauses are made outside any try block.     *)
C5_NoExceptionEscapes == ~last.esc

(* C6: a run of the upscale or thumbnail procedure that has put the        *)
(* 'processing' text on the triggering message ends with that message      *)
(* deleted, after the result document was delivered, or showing an error   *)
(* text, whatever the outcome of the image fetch, of the service request,  *)
(* of the delivery and of the deletion: the last call the run makes on the *)
(* message is that deletion or an error edit, and when the transport       *)
(* applies the edits the run makes, the message is not left on             *)
(* 'processing'.                                                           *)
ProcessingTexts == {UpscaleTexts.processing, ThumbnailTexts.processing}

ErrorTexts ==
    {t.not_found : t \in {UpscaleTexts, ThumbnailTexts}}
    \cup {t.invalid : t \in {UpscaleTexts, ThumbnailTexts}}
    \cup {t.request_error : t \in {UpscaleTexts, ThumbnailTexts}}
    \cup {t.unexpected : t \in {UpscaleTexts, ThumbnailTexts}}

StatusOps == {"edit_message_text", "delete_message"}

Max(S) == CHOOSE x \in S : \A y \in S : y <= x

\* what the message shows after the run: the last status call applied
FinalStatus ==
    LET applied == {i \in LogIdx : last.log[i].op \in StatusOps /\ last.log[i].ok}
    IN IF applied = {} THEN "untouched"
       ELSE IF last.log[Max(applied)].op = "delete_message" THEN "deleted"
       ELSE last.log[Max(applied)].text

ProcessingShown ==
    \E i \in LogIdx : /\ last.log[i].op = "edit_message_text"
                      /\ last.log[i].text \in ProcessingTexts
                      /\ last.log[i].ok

DocumentDelivered == \E i \in LogIdx : last.log[i].op = "send_document" /\ last.log[i].ok

EditsApplied == \A i \in LogIdx : last.log[i].op = "edit_message_text" => last.log[i].ok

C6_NeverLeftOnProcessing ==
    ProcessingShown =>
        LET k == Max({i \in LogIdx : last.log[i].op \in StatusOps})
        IN /\ \/ last.log[k].op = "delete_message" /\ last.log[k].ok /\ DocumentDelivered
              \/ last.log[k].op = "edit_message_text" /\ last.log[k].text \in ErrorTexts
           /\ EditsApplied =>
                 /\ ~last.esc
                 /\ FinalStatus \in ErrorTexts \cup {"deleted"}
                 /\ FinalStatus = "deleted" => DocumentDelivered

C6_Witness ==
    /\ ProcessingShown
    /\ EditsApplied
    /\ \E i \in LogIdx : last.log[i].op = "http" /\ ~last.log[i].ok
    /\ FinalStatus = UpscaleTexts.request_error

(* C7: rename finalization with a captured file reference and a candidate  *)
(* filename whose sanitized form is empty replies with the rejection and   *)
(* fetches and uploads nothing; with the rejection delivered, the session  *)
(* state is what it was: waiting_for_rename_filename is true and the       *)
(* captured reference and kind are kept.                                   *)
C7_EmptyNameCase ==
    /\ last.handler = "handle_text"
    /\ Authorized
    /\ AwaitingFilename(last.pre)
    /\ Has(last.pre, "rename_file_id")
    /\ clean_filename(last.text) = <<>>

C8_NonImageDocumentCase ==
    /\ Authorized
    /\ AwaitingImage(last.pre)
    /\ last.msg.has_document
    /\ ~is_image_mime(last.msg.mime_type)

C8_NonImageDocumentRejected ==
    C8_NonImageDocumentCase =>
        /\ IssuedText("reply_text", "rename_invalid_image")
        /\ user_data = last.pre

(* C9: the name under which the file is uploaded again is the reference    *)
(* result for the candidate filename: strip the leading and trailing       *)
(* whitespace, remove every character that is no letter, digit,            *)
(* whitespace, hyphen or underscore, replace the whitespace runs by one    *)
(* underscore each, append ".png"; it holds no whitespace character. The   *)
(* code refutes it: only the space is replaced, one underscore each.       *)
RECURSIVE CollapseWhitespace(_)
CollapseWhitespace(s) ==
    IF s = <<>> THEN <<>>
    ELSE IF Head(s) \in Whitespace THEN <<"_">> \o CollapseWhitespace(lstrip(Tail(s)))
    ELSE <<Head(s)>> \o CollapseWhitespace(Tail(s))

ReferenceName(filename) ==
    CollapseWhitespace(SelectSeq(strip(filename), KeepChar)) \o PngExt

C9_UploadedNameIsReference ==
    \A i \in LogIdx :
        (last.log[i].op = "send_document" /\ last.log[i].text = "renamed") =>
            /\ last.log[i].name = ReferenceName(last.text)
            /\ \A j \in 1..Len(last.log[i].name) : last.log[i].name[j] \notin Whitespace

(* C10: an authorized text message received while                          *)
(* waiting_for_rename_filename is true is handed to rename finalization    *)
(* and no request goes to the caption service; received while the flag is  *)
(* false, rename finalization does not run.                                *)
C10_TextRouting ==
    (last.handler = "handle_text" /\ Authorized) =>
        IF AwaitingFilename(last.pre)
        THEN /\ Len(last.log) >= 1
             /\ last.log[1] = Invoke("process_rename_with_filename", last.text)
             /\ ~Issued("http")
             /\ ~Issued("send_chat_action")
        ELSE ~Issued("process_rename_with_filename")

C10_Witness ==
    /\ last.handler = "handle_text"
    /\ Authorized
    /\ AwaitingFilename(last.pre)
    /\ DocumentDelivered

(* C11: a failed caption, upscale or thumbnail request (timeout, HTTP       *)
(* error, malformed JSON, missing or undecodable result) leaves the        *)
(* session state as it was before the update; photo_file_id in particular  *)
(* is kept, the same button can be pressed again on the same image.        *)
C11_FailedRequest ==
    /\ Issued("http")
    /\ ~IssuedText("reply_text", "caption_result")
    /\ ~Issued("send_document")

C11_FailedRequestKeepsState ==
    C11_FailedRequest => user_data = last.pre

C11_Witness ==
    /\ C11_FailedRequest
    /\ last.handler = "handle_callback"
    /\ FinalStatus = UpscaleTexts.unexpected
    /\ Has(user_data, "photo_file_id")
    /\ AwaitingFilename(user_data)

(* C12: the navigation callbacks upscale_menu and back_to_main leave the   *)
(* session state unchanged and make no file fetch and no service request;  *)
(* in every session state the press makes the same redraw: upscale_menu    *)
(* the buttons 2x, 4x, 8x and Back, back_to_main the pair Upscale,         *)
(* Thumbnail.                                                              *)
C12_NavigationCase ==
    /\ last.handler = "handle_callback"
    /\ Authorized
    /\ last.data \in {UpscaleMenu, BackToMain}
    /\ last.log[1].ok

C12_NavigationIsPure ==
    C12_NavigationCase =>
        /\ user_data = last.pre
        /\ ~Issued("http")
        /\ ~Issued("get_file")
        /\ ~Issued("send_document")
        /\ Len(last.log) = 2
        /\ last.log[2].op = "edit_message_text"
        /\ last.data = UpscaleMenu =>
              /\ last.log[2].text = "upscale_menu"
              /\ last.log[2].name = <<"upscale_2x", "upscale_4x", "upscale_8x", "back_to_main">>
        /\ last.data = BackToMain =>
              /\ last.log[2].text = "main_menu"
              /\ last.log[2].name = <<"upscale_menu", "thumbnail">>

C12_Witness ==
    /\ C12_NavigationCase
    /\ last.data = BackToMain
    /\ last.log[2].ok
    /\ AwaitingImage(user_data)
    /\ Has(user_data, "photo_file_id")

(* C13: for every callback, of the allowed chat or not, the                *)
(* acknowledgement is the first call of the handler and is made once; when *)
(* it raises, nothing else has happened: no edit, no fetch, no request, no *)
(* change of the session state.                                            *)
C13_AnswerFirst ==
    last.handler = "handle_callback" =>
        /\ Len(last.log) >= 1
        /\ last.log[1].op = "answer"
        /\ \A i \in LogIdx : i > 1 => last.log[i].op # "answer"
        /\ ~last.log[1].ok => (Len(last.log) = 1 /\ user_data = last.pre)

C13_Witness ==
    /\ last.handler = "handle_callback"
    /\ ~Authorized
    /\ Len(last.log) = 1
    /\ last.log[1].op = "answer"
    /\ last.log[1].ok

(* C15: the upscale or thumbnail procedure run while no photo_file_id is   *)
(* stored edits the status message to 'image not found' and stops: no file *)
(* fetch, no service request, no document.                                 *)
C15_MissingReferenceCase ==
    /\ last.handler = "handle_callback"
    /\ Authorized
    /\ last.data \notin {UpscaleMenu, BackToMain}
    /\ "photo_file_id" \notin DOMAIN last.pre
    /\ ProcessingShown

C15_MissingReferenceStops ==
    C15_MissingReferenceCase =>
        /\ Len(last.log) >= 3
        /\ last.log[3].op = "edit_message_text"
        /\ last.log[3].text = "image_not_found"
        /\ ~Issued("get_file")
        /\ ~Issued("http")
        /\ ~Issued("send_document")
        /\ last.log[3].ok =>
              /\ Len(last.log) = 3
              /\ ~last.esc
              /\ FinalStatus = "image_not_found"

C15_Witness ==
    /\ C15_MissingReferenceCase
    /\ last.data = Thumbnail
    /\ last.log[3].ok

(* C16: rename finalization that reaches a terminal step clears the whole  *)
(* session state, photo_file_id included. The code refutes it on the run   *)
(* of C2: a failing error reply leaves before the clear.                   *)
C16_FinishedRenameClearsEverything ==
    C2_RenameTerminal => user_data = EmptyDict

(* C17: an update of a chat other than the allowed one changes no session  *)
(* state and causes no file fetch and no request to a service.             *)
C17_UnauthorizedChangesNothing ==
    last.chat # ALLOWED_CHAT_ID =>
        /\ user_data = last.pre
        /\ ~Issued("get_file")
        /\ ~Issued("http")

C17_Witness ==
    /\ last.chat # ALLOWED_CHAT_ID
    /\ last.handler = "rename"
    /\ last.log[1].ok
    /\ ~AwaitingImage(user_data)
    /\ Has(user_data, "photo_file_id")

(* C18: once waiting_for_rename_image is true it stays true across /start, *)
(* /share, /rename, text messages and callback presses, and becomes false  *)
(* only by an image, which is taken as the rename target: photo_file_id is *)
(* not changed and no menu is presented. The code refutes it in the state  *)
(* of C1: with both flags true a text message runs rename finalization,    *)
(* whose clear removes the flag.                                           *)
SamePhotoReference(a, b) ==
    /\ Has(a, "photo_file_id") <=> Has(b, "photo_file_id")
    /\ Has(a, "photo_file_id") => a["photo_file_id"] = b["photo_file_id"]

C18_AwaitingImageEndsOnlyByImage ==
    (Authorized /\ AwaitingImage(last.pre)) =>
        IF last.handler = "handle_image"
        THEN /\ ~AwaitingImage(user_data)
             /\ SamePhotoReference(last.pre, user_data)
             /\ ~IssuedText("reply_text", "main_menu")
        ELSE AwaitingImage(user_data)

(* C14: the remote requests do not stall the intake of updates: while a    *)
(* handler is waiting for the response or the timeout of a caption,        *)
(* upscale or thumbnail request, another update can be taken in and        *)
(* handled to completion. The code refutes it: requests.get and            *)
(* requests.post block the thread of the event loop.                       *)
C14_IntakeWhileWaiting ==
    ~Idle => ENABLED HandleUpdate

(* C19: whenever the upscale or thumbnail procedure fetches an image it is *)
(* the stored photo_file_id, and that is the last image the user sent      *)
(* outside the rename-image step, whichever image's menu the pressed       *)
(* button is on.                                                           *)
C19_FetchesMostRecentImage ==
    last.handler = "handle_callback" =>
        \A i \in LogIdx :
            last.log[i].op \in {"get_file", "http", "send_document"} =>
                /\ Has(last.pre, "photo_file_id")
                /\ last.log[i].file = last.pre["photo_file_id"]
                /\ last.log[i].file = recent_image

C19_Witness ==
    /\ last.handler = "handle_callback"
    /\ last.data = Thumbnail
    /\ last.menu \in FileIds
    /\ \E i \in LogIdx :
          /\ last.log[i].op = "get_file"
          /\ last.log[i].ok
          /\ last.log[i].file # last.menu
    /\ Issued("send_document")

====
